---- MODULE Spec2Model ----
(***************************************************************************)
(* CustomMapAPI (src/lyftl5/custom_map_api.py): route reconstruction       *)
(* (get_route) over the lane graph, stepped statement group by statement   *)
(* group, and nearest-lane retrieval (get_closest_lanes_ids).              *)
(***************************************************************************)
EXTENDS Integers, Sequences, FiniteSets, TLC

VARIABLES
    lanes,                \* the map: lane id -> Lane record (adjacency fields)
    trajectory,           \* get_route argument: sequence of <<x, y>>
    visited_lanes_ids,    \* dict lane id -> parent, as a sequence of <<key, value>>
    unvisited_lanes_ids,  \* dict lane id -> parent, in insertion order
    initial_lanes_ids,
    final_lanes_ids,
    frame_idx,            \* 0-based index of enumerate(trajectory)
    current_lanes_ids,    \* lanes of the current frame still to be visited
    connected_lanes_ids,  \* neighbours of lane_id still to be inserted
    lane_id,              \* loop variable of lines 78 and 94-97
    route,                \* the deque of line 93, as a sequence
    route_none,           \* TRUE while route is None (line 90)
    pc,                   \* position inside the running call
    writers,              \* history: per lane id, the lanes that wrote its unvisited entry
    position,             \* get_closest_lanes_ids argument
    closest_lanes_ids     \* its return value (<<>> stands for None)

vars == <<lanes, trajectory, visited_lanes_ids, unvisited_lanes_ids,
          initial_lanes_ids, final_lanes_ids, frame_idx, current_lanes_ids,
          connected_lanes_ids, lane_id, route, route_none, pc, writers,
          position, closest_lanes_ids>>

-----------------------------------------------------------------------------
(* Bounds of the checked inputs *)

\* longest trajectory handed to get_route on an arbitrary map
MaxTrajLen == 3

\* longest trajectory handed to get_route on the three-lane chain map
MaxChainTrajLen == 5

\* the positions handed to get_closest_lanes_ids are the grid points
\* (-2..MaxQueryX) \X (-2..MaxQueryY)
MaxQueryX == 11

MaxQueryY == 4

-----------------------------------------------------------------------------
(* The map *)

\* Python's None (parent of a seeded lane)
NoneVal == "None"

\* id_as_str of an unset id field
EmptyId == ""

\* self.elements, in element order: the lanes that have a record
elements == <<"A", "B", "C">>

\* ids_to_el: the ids that resolve to an element
ids_to_el == {elements[i] : i \in 1..Len(elements)}

\* an id that adjacency may name although no element carries it
MissingId == "M"

\* get_lane_coords(lane_id): the two boundary polylines of each lane
lane_coords ==
    [l \in ids_to_el |->
        CASE l = "A" -> [xyz_left  |-> << <<0, 2>>, <<4, 2>> >>,
                         xyz_right |-> << <<0, 0>>, <<4, 0>> >>]
          [] l = "B" -> [xyz_left  |-> << <<2, 2>>, <<6, 2>> >>,
                         xyz_right |-> << <<2, 0>>, <<6, 0>> >>]
          [] l = "C" -> [xyz_left  |-> << <<4, 2>>, <<9, 2>> >>,
                         xyz_right |-> << <<4, 0>>, <<9, 0>> >>]]

\* get_lane_as_interpolation(lane_id, 1.0, INTER_METER)["xyz_midlane"][:, :2]
xyz_midlane ==
    [l \in ids_to_el |->
        CASE l = "A" -> << <<0, 1>>, <<1, 1>>, <<2, 1>>, <<3, 1>>, <<4, 1>> >>
          [] l = "B" -> << <<2, 1>>, <<3, 1>>, <<4, 1>>, <<5, 1>>, <<6, 1>> >>
          [] l = "C" -> << <<4, 1>>, <<5, 1>>, <<6, 1>>, <<7, 1>>, <<8, 1>>, <<9, 1>> >>]

Range(s) == {s[i] : i \in 1..Len(s)}

SetMin(S) == CHOOSE m \in S : \A n \in S : m <= n

SetMax(S) == CHOOSE m \in S : \A n \in S : m >= n

\* lines 172-182: [[x_min, y_min], [x_max, y_max]] over both boundary polylines
get_lane_bounds(l) ==
    LET pts == Range(lane_coords[l].xyz_left) \cup Range(lane_coords[l].xyz_right)
        xs == {p[1] : p \in pts}
        ys == {p[2] : p \in pts}
    IN  << <<SetMin(xs), SetMin(ys)>>, <<SetMax(xs), SetMax(ys)>> >>

\* lines 184-198: strict containment on all four bounds
in_bounds(pos, bounds) ==
    LET x_in == pos[1] > bounds[1][1] /\ pos[1] < bounds[2][1]
        y_in == pos[2] > bounds[1][2] /\ pos[2] < bounds[2][2]
    IN  x_in /\ y_in

\* lines 101-117: every lane, in element order, whose bounds contain the position
get_lanes_ids_at(pos) ==
    SelectSeq(elements, LAMBDA l : in_bounds(pos, get_lane_bounds(l)))

\* the emptiness test of line 157 inverted
MutAheadKeepsEmptyIds(l) ==
    SelectSeq(lanes[l].lanes_ahead, LAMBDA a : a = EmptyId)

\* lines 152-159: the non-empty ids of lane.lanes_ahead, in order
get_ahead_lanes_ids(l) ==
    SelectSeq(lanes[l].lanes_ahead, LAMBDA a : a # EmptyId)

\* lines 161-170: left change then right change, empty ids dropped
get_change_lanes_ids(l) ==
    (IF lanes[l].adjacent_lane_change_left # EmptyId
        THEN <<lanes[l].adjacent_lane_change_left>> ELSE <<>>)
    \o
    (IF lanes[l].adjacent_lane_change_right # EmptyId
        THEN <<lanes[l].adjacent_lane_change_right>> ELSE <<>>)

\* lines 147-150
get_connected_lanes_ids(l) == get_ahead_lanes_ids(l) \o get_change_lanes_ids(l)

-----------------------------------------------------------------------------
(* Python dicts, insertion ordered: sequences of <<key, value>> *)

DictKeys(d) == {d[i][1] : i \in 1..Len(d)}

DictKeySeq(d) == [i \in 1..Len(d) |-> d[i][1]]

DictGet(d, k) == d[CHOOSE i \in 1..Len(d) : d[i][1] = k][2]

\* d[k] = v: an existing key keeps its place
DictSet(d, k, v) ==
    IF k \in DictKeys(d)
        THEN [i \in 1..Len(d) |-> IF d[i][1] = k THEN <<k, v>> ELSE d[i]]
        ELSE Append(d, <<k, v>>)

\* del d[k]
DictDel(d, k) == SelectSeq(d, LAMBDA e : e[1] # k)

-----------------------------------------------------------------------------
(* Inputs *)

\* lane.lanes_ahead of the checked maps: no lane ahead, one lane ahead (with or
\* without an element), or an unset id followed by lane C
AheadLists ==
    {<<>>, <<EmptyId, "C">>} \cup {<<x>> : x \in ids_to_el \cup {MissingId}}

\* Lane records of the checked maps; A and B lie side by side
LaneRecords(l) ==
    [lanes_ahead : AheadLists,
     adjacent_lane_change_left  : IF l = "A" THEN {EmptyId, "B"} ELSE {EmptyId},
     adjacent_lane_change_right : IF l = "B" THEN {EmptyId, "A"} ELSE {EmptyId}]

Maps ==
    {[l \in ids_to_el |-> CASE l = "A" -> a [] l = "B" -> b [] l = "C" -> c] :
        a \in LaneRecords("A"), b \in LaneRecords("B"), c \in LaneRecords("C")}

\* the chain A -> B -> C, with or without the lane changes between A and B
ChainMaps ==
    {m \in Maps : /\ m["A"].lanes_ahead = <<"B">>
                  /\ m["B"].lanes_ahead = <<"C">>
                  /\ m["C"].lanes_ahead = <<>>}

\* sampled positions: inside A only; inside A and B; on the edge of A and of C,
\* inside B only; inside C only; on the far edge of C, inside no lane
Points == {<<1, 1>>, <<3, 1>>, <<4, 1>>, <<7, 1>>, <<9, 1>>}

\* the same, and a position inside B and C
ChainPoints == Points \cup {<<5, 1>>}

SeqsUpTo(S, lo, hi) == UNION {[1..n -> S] : n \in lo..hi}

-----------------------------------------------------------------------------
(* get_route *)

\* line 57
initial_position(t) == t[1]

\* trajectory[-1] in the place of trajectory[-2]
MutFinalIsLastSample(t) == t[Len(t)]

\* line 58
final_position(t) == t[Len(t) - 1]

\* only the first initial lane seeded
MutSeedFirstOnly(ids) == [i \in 1..(IF Len(ids) > 0 THEN 1 ELSE 0) |-> <<ids[i], NoneVal>>]

\* lines 63-64: every initial lane seeded with parent None
SeedUnvisited(ids) == [i \in 1..Len(ids) |-> <<ids[i], NoneVal>>]

\* lines 72-75: the unvisited lanes, in dict order, whose bounds contain the position
SelectCurrent(unvisited, pos) ==
    SelectSeq(DictKeySeq(unvisited), LAMBDA l : in_bounds(pos, get_lane_bounds(l)))

\* line 80
MoveToVisited(visited, unvisited, l) == DictSet(visited, l, DictGet(unvisited, l))

\* the membership test of line 87 left out
MutInsertUnchecked(visited, unvisited, c, l) == DictSet(unvisited, c, l)

\* an entry already in unvisited keeps its parent (first writer wins)
MutInsertFirstWriter(visited, unvisited, c, l) ==
    IF c \notin DictKeys(visited) /\ c \notin DictKeys(unvisited)
        THEN DictSet(unvisited, c, l) ELSE unvisited

\* lines 87-88
InsertConnected(visited, unvisited, c, l) ==
    IF c \notin DictKeys(visited) THEN DictSet(unvisited, c, l) ELSE unvisited

\* the scan of lines 91-98 without its break: the last visited final lane wins
MutVisitedFinalsLastWins(finals, visited) ==
    LET found == SelectSeq(finals, LAMBDA f : f \in DictKeys(visited))
    IN  [i \in 1..Len(found) |-> found[Len(found) + 1 - i]]

\* lines 91-92: the final lanes that are visited, in final_lanes_ids order
VisitedFinals(finals, visited) ==
    SelectSeq(finals, LAMBDA f : f \in DictKeys(visited))

\* append in the place of appendleft
MutAppendRight(r, l) == Append(r, l)

\* line 96
AppendLeft(r, l) == <<l>> \o r

\* the route is compared with the first initial lane only
MutGuardFirstInitialOnly(r, initials) ==
    ~ \E i \in 1..Len(r) : Len(initials) > 0 /\ r[i] = initials[1]

\* line 95: the loop guard of the backtrack
BacktrackContinues(r, initials) == ~ \E i \in 1..Len(r) : r[i] \in Range(initials)

IdleRoute ==
    /\ visited_lanes_ids = <<>>
    /\ unvisited_lanes_ids = <<>>
    /\ initial_lanes_ids = <<>>
    /\ final_lanes_ids = <<>>
    /\ frame_idx = 0
    /\ current_lanes_ids = <<>>
    /\ connected_lanes_ids = <<>>
    /\ lane_id = NoneVal
    /\ route = <<>>
    /\ route_none = TRUE
    /\ writers = [l \in ids_to_el \cup {MissingId} |-> <<>>]

Init ==
    /\ lanes \in Maps
    /\ trajectory \in SeqsUpTo(Points, 2, MaxTrajLen)
    /\ IdleRoute
    /\ pc = "call"
    /\ position = <<0, 0>>
    /\ closest_lanes_ids = <<>>

\* lines 54-64
GetRoute ==
    /\ pc = "call"
    /\ initial_lanes_ids' = get_lanes_ids_at(initial_position(trajectory))
    /\ final_lanes_ids' = get_lanes_ids_at(final_position(trajectory))
    /\ visited_lanes_ids' = <<>>
    /\ unvisited_lanes_ids' = SeedUnvisited(initial_lanes_ids')
    /\ frame_idx' = 0
    /\ pc' = "frame"
    /\ UNCHANGED <<lanes, trajectory, current_lanes_ids, connected_lanes_ids,
                   lane_id, route, route_none, writers, position, closest_lanes_ids>>

\* where the loops of lines 66-88 continue once the current neighbour list is done
AfterLane(current, connected) ==
    IF connected # <<>> THEN "connect"
    ELSE IF current # <<>> THEN "visit"
    ELSE "frame"

\* lines 66-75: next frame; frame 0 is skipped; get_lane_bounds of an unvisited id
\* without an element raises KeyError
NextFrame ==
    /\ pc = "frame"
    /\ IF frame_idx >= Len(trajectory)
         THEN /\ pc' = "scan"
              /\ UNCHANGED <<frame_idx, current_lanes_ids>>
       ELSE IF frame_idx = 0
         THEN /\ frame_idx' = 1
              /\ UNCHANGED <<pc, current_lanes_ids>>
       ELSE IF ~ (DictKeys(unvisited_lanes_ids) \subseteq ids_to_el)
         THEN /\ pc' = "raise_bounds"
              /\ UNCHANGED <<frame_idx, current_lanes_ids>>
       ELSE /\ current_lanes_ids' =
                    SelectCurrent(unvisited_lanes_ids, trajectory[frame_idx + 1])
            /\ frame_idx' = IF current_lanes_ids' = <<>> THEN frame_idx + 1 ELSE frame_idx
            /\ pc' = AfterLane(current_lanes_ids', <<>>)
    /\ UNCHANGED <<lanes, trajectory, visited_lanes_ids, unvisited_lanes_ids,
                   initial_lanes_ids, final_lanes_ids, connected_lanes_ids,
                   lane_id, route, route_none, writers, position, closest_lanes_ids>>

\* lines 78-85: visit the next current lane and fetch its neighbours
VisitLane ==
    /\ pc = "visit"
    /\ lane_id' = Head(current_lanes_ids)
    /\ current_lanes_ids' = Tail(current_lanes_ids)
    /\ visited_lanes_ids' = MoveToVisited(visited_lanes_ids, unvisited_lanes_ids, lane_id')
    /\ unvisited_lanes_ids' = DictDel(unvisited_lanes_ids, lane_id')
    /\ connected_lanes_ids' = get_connected_lanes_ids(lane_id')
    /\ pc' = AfterLane(current_lanes_ids', connected_lanes_ids')
    /\ frame_idx' = IF pc' = "frame" THEN frame_idx + 1 ELSE frame_idx
    /\ UNCHANGED <<lanes, trajectory, initial_lanes_ids, final_lanes_ids,
                   route, route_none, writers, position, closest_lanes_ids>>

\* lines 86-88: one neighbour of the lane just visited
Connect ==
    /\ pc = "connect"
    /\ LET c == Head(connected_lanes_ids)
       IN  /\ unvisited_lanes_ids' =
                  InsertConnected(visited_lanes_ids, unvisited_lanes_ids, c, lane_id)
           /\ writers' = IF c \notin DictKeys(visited_lanes_ids)
                            THEN [writers EXCEPT ![c] = Append(@, lane_id)]
                            ELSE writers
    /\ connected_lanes_ids' = Tail(connected_lanes_ids)
    /\ pc' = AfterLane(current_lanes_ids, connected_lanes_ids')
    /\ frame_idx' = IF pc' = "frame" THEN frame_idx + 1 ELSE frame_idx
    /\ UNCHANGED <<lanes, trajectory, visited_lanes_ids, initial_lanes_ids,
                   final_lanes_ids, current_lanes_ids, lane_id, route, route_none,
                   position, closest_lanes_ids>>

\* lines 90-94: the first final lane that is visited starts the route
ScanFinal ==
    /\ pc = "scan"
    /\ LET found == VisitedFinals(final_lanes_ids, visited_lanes_ids)
       IN  IF found = <<>>
             THEN /\ pc' = "return"
                  /\ UNCHANGED <<route, route_none, lane_id>>
             ELSE /\ route' = <<>>
                  /\ route_none' = FALSE
                  /\ lane_id' = Head(found)
                  /\ pc' = "backtrack"
    /\ UNCHANGED <<lanes, trajectory, visited_lanes_ids, unvisited_lanes_ids,
                   initial_lanes_ids, final_lanes_ids, frame_idx, current_lanes_ids,
                   connected_lanes_ids, writers, position, closest_lanes_ids>>

\* lines 95-98: one turn of the while loop, or its exit
Backtrack ==
    /\ pc = "backtrack"
    /\ IF BacktrackContinues(route, initial_lanes_ids)
         THEN /\ route' = AppendLeft(route, lane_id)
              /\ IF lane_id \in DictKeys(visited_lanes_ids)
                   THEN /\ lane_id' = DictGet(visited_lanes_ids, lane_id)
                        /\ pc' = "backtrack"
                   ELSE /\ pc' = "raise_parent"
                        /\ UNCHANGED lane_id
         ELSE /\ pc' = "return"
              /\ UNCHANGED <<route, lane_id>>
    /\ UNCHANGED <<lanes, trajectory, visited_lanes_ids, unvisited_lanes_ids,
                   initial_lanes_ids, final_lanes_ids, frame_idx, current_lanes_ids,
                   connected_lanes_ids, route_none, writers, position,
                   closest_lanes_ids>>

Next ==
    \/ GetRoute
    \/ NextFrame
    \/ VisitLane
    \/ Connect
    \/ ScanFinal
    \/ Backtrack

Spec == Init /\ [][Next]_vars

\* get_route on the chain map
ChainInit ==
    /\ lanes \in ChainMaps
    /\ trajectory \in SeqsUpTo(ChainPoints, 2, MaxChainTrajLen)
    /\ IdleRoute
    /\ pc = "call"
    /\ position = <<0, 0>>
    /\ closest_lanes_ids = <<>>

ChainSpec == ChainInit /\ [][Next]_vars

-----------------------------------------------------------------------------
(* get_closest_lanes_ids *)

\* line 32: lane_cfg_params["max_retrieval_distance_m"]
max_retrieval_distance_m == 2

\* lines 35-36: bounds_info["lanes"], in element order
lanes_ids == elements

lanes_bounds == [i \in 1..Len(elements) |-> get_lane_bounds(elements[i])]

\* line 37: the indices, ascending, of the bounds that lie within half_extent of
\* the centre (strictly, on all four sides)
indices_in_bounds(center, bounds, half_extent) ==
    SelectSeq([i \in 1..Len(bounds) |-> i],
              LAMBDA i : /\ center[1] > bounds[i][1][1] - half_extent
                         /\ center[2] > bounds[i][1][2] - half_extent
                         /\ center[1] < bounds[i][2][1] + half_extent
                         /\ center[2] < bounds[i][2][2] + half_extent)

\* np.linalg.norm(a - b), squared: on integer coordinates the square root keeps
\* both the order and the equality of the squared lengths
norm(a, b) == (a[1] - b[1]) * (a[1] - b[1]) + (a[2] - b[2]) * (a[2] - b[2])

\* lines 120-136, then lines 45-46: the distance of the first midpoint of the
\* lane's midpoints sorted by distance to the position, i.e. of a nearest one
closest_midpoint_distance(pos, l) ==
    SetMin({norm(xyz_midlane[l][i], pos) : i \in 1..Len(xyz_midlane[l])})

\* lines 41-47
lanes_distances(pos, lanes_indices) ==
    [k \in 1..Len(lanes_indices) |->
        closest_midpoint_distance(pos, lanes_ids[lanes_indices[k]])]

\* the values put in descending order
MutArgsortDescending(d) ==
    {p \in [1..Len(d) -> 1..Len(d)] :
        /\ \A i, j \in 1..Len(d) : i # j => p[i] # p[j]
        /\ \A i \in 1..Len(d) - 1 : d[p[i]] >= d[p[i + 1]]}

\* np.argsort(d) with its default sort, which is not stable: every ordering of
\* the indices of d that puts the values in ascending order
argsort(d) ==
    {p \in [1..Len(d) -> 1..Len(d)] :
        /\ \A i, j \in 1..Len(d) : i # j => p[i] # p[j]
        /\ \A i \in 1..Len(d) - 1 : d[p[i]] <= d[p[i + 1]]}

QueryPoints == (-2..MaxQueryX) \X (-2..MaxQueryY)

ClosestInit ==
    /\ lanes \in {m \in Maps : \A l \in ids_to_el :
                                /\ m[l].lanes_ahead = <<>>
                                /\ m[l].adjacent_lane_change_left = EmptyId
                                /\ m[l].adjacent_lane_change_right = EmptyId}
    /\ trajectory = <<>>
    /\ IdleRoute
    /\ pc = "call_closest"
    /\ position \in QueryPoints
    /\ closest_lanes_ids = <<>>

\* lines 32-51
GetClosestLanesIds ==
    /\ pc = "call_closest"
    /\ LET lanes_indices ==
               indices_in_bounds(position, lanes_bounds, max_retrieval_distance_m)
       IN  IF Len(lanes_indices) = 0
             THEN closest_lanes_ids' = <<>>
             ELSE \E order \in argsort(lanes_distances(position, lanes_indices)) :
                     closest_lanes_ids' =
                        [k \in 1..Len(lanes_indices) |->
                            lanes_ids[lanes_indices[order[k]]]]
    /\ pc' = "return_closest"
    /\ UNCHANGED <<lanes, trajectory, visited_lanes_ids, unvisited_lanes_ids,
                   initial_lanes_ids, final_lanes_ids, frame_idx, current_lanes_ids,
                   connected_lanes_ids, lane_id, route, route_none, writers,
                   position>>

ClosestNext == GetClosestLanesIds

ClosestSpec == ClosestInit /\ [][ClosestNext]_vars

-----------------------------------------------------------------------------
(* Properties of get_route *)

\* lanes_containing(trajectory[0]) and lanes_containing(trajectory[len - 2])
InitialIds == get_lanes_ids_at(trajectory[1])

FinalIds == get_lanes_ids_at(trajectory[Len(trajectory) - 1])

\* the final lanes found in visited, in the order of FinalIds
FinalsInVisited == SelectSeq(FinalIds, LAMBDA f : f \in DictKeys(visited_lanes_ids))

\* ahead, left-change and right-change of a lane record
Adjacency(l) ==
    (Range(lanes[l].lanes_ahead)
        \cup {lanes[l].adjacent_lane_change_left, lanes[l].adjacent_lane_change_right})
    \ {EmptyId}

Returned == pc = "return"

Raised == pc \in {"raise_bounds", "raise_parent"}

NoRepetition(r) == \A i, j \in 1..Len(r) : i # j => r[i] # r[j]

\* C1: a returned route starts in a lane that contains trajectory[0] and ends in
\* a lane that contains the second-to-last sample
C1_RouteEnds ==
    (Returned /\ ~route_none) =>
        /\ Len(route) >= 1
        /\ route[1] \in Range(InitialIds)
        /\ route[Len(route)] \in Range(FinalIds)

C1_Witness ==
    /\ Returned /\ ~route_none
    /\ Len(route) >= 2
    /\ route[1] # route[Len(route)]
    /\ Len(FinalIds) >= 2

\* C2: at every step of the expansion visited and unvisited share no key, and a
\* lane id that is in visited stays there and is never put into unvisited again
C2_FrontierDisjoint ==
    [][/\ DictKeys(visited_lanes_ids) \cap DictKeys(unvisited_lanes_ids) = {}
       /\ DictKeys(visited_lanes_ids') \cap DictKeys(unvisited_lanes_ids') = {}
       /\ DictKeys(visited_lanes_ids) \subseteq DictKeys(visited_lanes_ids')
       /\ \A l \in DictKeys(visited_lanes_ids) : l \notin DictKeys(unvisited_lanes_ids')
      ]_vars

\* a neighbour that is already visited is about to be handled: an edge back into
\* the visited part of a cycle, or a self-loop
C2_Witness ==
    /\ pc = "connect"
    /\ Head(connected_lanes_ids) \in DictKeys(visited_lanes_ids)
    /\ unvisited_lanes_ids # <<>>

\* C6: the call returns None exactly when no final lane is visited, and otherwise
\* the route ends with the first final lane, in the order of final_ids, that is
\* visited
C6_Destination ==
    Returned =>
        /\ route_none <=> (FinalsInVisited = <<>>)
        /\ ~route_none => /\ route # <<>>
                          /\ route[Len(route)] = FinalsInVisited[1]

\* the first final lane was never visited and a later one was
C6_Witness ==
    /\ Returned /\ ~route_none
    /\ Len(FinalIds) >= 2
    /\ FinalIds[1] \notin DictKeys(visited_lanes_ids)

\* C8: the backtrack terminates: no parent lookup fails, every parentless
\* visited lane is an initial lane, and every turn of the loop prepends a
\* visited lane that the route does not hold yet
C8_BacktrackTerminates ==
    /\ pc # "raise_parent"
    /\ \A l \in DictKeys(visited_lanes_ids) :
          DictGet(visited_lanes_ids, l) = NoneVal => l \in Range(InitialIds)
    /\ pc = "backtrack" =>
          /\ NoRepetition(route)
          /\ Range(route) \subseteq DictKeys(visited_lanes_ids)
          /\ (Range(route) \cap Range(InitialIds) = {}) =>
                /\ lane_id \in DictKeys(visited_lanes_ids)
                /\ lane_id \notin Range(route)

\* the backtrack is under way on a map where A and B form a cycle
C8_Witness ==
    /\ pc = "backtrack"
    /\ Len(route) >= 1
    /\ Range(route) \cap Range(InitialIds) = {}
    /\ lanes["A"].adjacent_lane_change_left = "B"
    /\ lanes["B"].adjacent_lane_change_right = "A"

\* C9: a returned route is a chain of the lane graph: every element is visited,
\* every element is adjacent to the one before it, and none occurs twice
C9_RouteIsChain ==
    (Returned /\ ~route_none) =>
        /\ Range(route) \subseteq DictKeys(visited_lanes_ids) \cap ids_to_el
        /\ \A i \in 1..(Len(route) - 1) : route[i + 1] \in Adjacency(route[i])
        /\ NoRepetition(route)

\* a route of two lanes whose second lane does not lead back to the first
C9_Witness ==
    /\ Returned /\ ~route_none
    /\ Len(route) = 2
    /\ route[1] \notin Adjacency(route[2])

\* the parent the last writer left: the most recent lane that listed l while l
\* was not visited, None when there was none
LastWriter(l) == IF writers[l] = <<>> THEN NoneVal ELSE writers[l][Len(writers[l])]

ParentsAreLastWriters(d) ==
    \A l \in DictKeys(d) :
        /\ DictGet(d, l) = LastWriter(l)
        /\ DictGet(d, l) = NoneVal => l \in Range(InitialIds)

\* C10: the recorded parent of a lane is the last lane that listed it before it
\* was visited, None only for a seeded initial lane that nobody listed, and the
\* parent of a visited lane never changes. (The parents are read in the state a
\* step leaves: every step that writes a dict is followed by another step.)
C10_LastWriterWins ==
    [][/\ ParentsAreLastWriters(visited_lanes_ids)
       /\ ParentsAreLastWriters(unvisited_lanes_ids)
       /\ \A l \in DictKeys(visited_lanes_ids) :
             /\ l \in DictKeys(visited_lanes_ids')
             /\ DictGet(visited_lanes_ids', l) = DictGet(visited_lanes_ids, l)
      ]_vars

\* a visited lane whose entry was written twice, by two different lanes
C10_Witness ==
    \E l \in DictKeys(visited_lanes_ids) :
        /\ Len(writers[l]) >= 2
        /\ writers[l][1] # writers[l][Len(writers[l])]

\* every sample of the trajectory lies inside the bounds of lane l
InsideAll(l) ==
    \A i \in 1..Len(trajectory) : in_bounds(trajectory[i], get_lane_bounds(l))

\* C4 as stated, for the L that leaves no choice: when L is the one lane that
\* contains every sample the call returns [L], whatever other lanes overlap the
\* trajectory
C4_Original ==
    Returned =>
        \A l \in ids_to_el :
            (InsideAll(l) /\ \A k \in ids_to_el \ {l} : ~InsideAll(k))
                => (~route_none /\ route = <<l>>)

\* C4 amended: when every sample lies inside lane L, a call that returns has
\* visited L, and returns [L] if no final lane listed before L is visited; a call
\* that does not return raised on an unvisited id without an element
C4_SingleLane ==
    (Returned \/ Raised) =>
        \A l \in ids_to_el : InsideAll(l) =>
            IF Returned
              THEN /\ l \in DictKeys(visited_lanes_ids)
                   /\ FinalsInVisited[1] = l => (~route_none /\ route = <<l>>)
              ELSE /\ pc = "raise_bounds"
                   /\ ~ (DictKeys(unvisited_lanes_ids) \subseteq ids_to_el)

\* [L] is returned although a second lane contains the start as well
C4_Witness ==
    /\ Returned /\ ~route_none
    /\ Len(InitialIds) >= 2
    /\ \E l \in ids_to_el : InsideAll(l) /\ FinalsInVisited[1] = l /\ route = <<l>>

\* C5: a neighbour id without an element is skipped, so the call never raises on
\* it, at that frame or a later one
C5_MissingNeighborSkipped == pc # "raise_bounds"

-----------------------------------------------------------------------------
(* The chain scenario *)

InsideOnly(pos, l) == get_lanes_ids_at(pos) = <<l>>

\* the samples lie inside A only, then inside B only, then inside C only, at
\* least minA of them inside A and the second-to-last inside C
ChainTrajectory(minA) ==
    LET n == Len(trajectory)
    IN  \E i, j \in 1..n :
            /\ minA <= i /\ i < j /\ j <= n - 2
            /\ \A k \in 1..i : InsideOnly(trajectory[k], "A")
            /\ \A k \in (i + 1)..j : InsideOnly(trajectory[k], "B")
            /\ \A k \in (j + 1)..n : InsideOnly(trajectory[k], "C")

\* C3 as stated: on the chain, samples inside A, then B, then C yield [A, B, C],
\* also when a single sample lies inside A
C3_Original ==
    Returned =>
        (ChainTrajectory(1) => (~route_none /\ route = <<"A", "B", "C">>))

\* C3 amended: the same with at least two samples inside A (the frame of index 0
\* is skipped, so A is visited only by a later sample inside it)
C3_ChainRoute ==
    (Returned \/ Raised) =>
        (ChainTrajectory(2) =>
            (Returned /\ ~route_none /\ route = <<"A", "B", "C">>))

C3_Witness ==
    /\ Returned
    /\ ChainTrajectory(2)
    /\ route = <<"A", "B", "C">>

-----------------------------------------------------------------------------
(* Properties of get_closest_lanes_ids *)

\* the coarse candidates, in candidate order
Candidates ==
    LET idx == indices_in_bounds(position, lanes_bounds, max_retrieval_distance_m)
    IN  [k \in 1..Len(idx) |-> lanes_ids[idx[k]]]

\* squared distance from the position to the nearest midpoint of lane l
NearestMidpoint(l) ==
    LET d(m) == (m[1] - position[1]) * (m[1] - position[1])
                    + (m[2] - position[2]) * (m[2] - position[2])
    IN  SetMin({d(m) : m \in Range(xyz_midlane[l])})

IndexIn(s, x) == CHOOSE i \in 1..Len(s) : s[i] = x

IsPermutationOf(r, c) ==
    /\ Len(r) = Len(c)
    /\ Range(r) = Range(c)
    /\ NoRepetition(r)

Ascending(r) ==
    \A i \in 1..(Len(r) - 1) : NearestMidpoint(r[i]) <= NearestMidpoint(r[i + 1])

\* C7 as stated: the candidates in ascending distance, candidates at equal
\* distance in their candidate order
C7_Original ==
    (pc = "return_closest" /\ Candidates # <<>>) =>
        /\ IsPermutationOf(closest_lanes_ids, Candidates)
        /\ Ascending(closest_lanes_ids)
        /\ \A i \in 1..(Len(closest_lanes_ids) - 1) :
              NearestMidpoint(closest_lanes_ids[i])
                    = NearestMidpoint(closest_lanes_ids[i + 1])
                => IndexIn(Candidates, closest_lanes_ids[i])
                        < IndexIn(Candidates, closest_lanes_ids[i + 1])

\* C7 amended: exactly the candidates, in ascending distance; the order among
\* candidates at equal distance is not fixed
C7_SortedByDistance ==
    (pc = "return_closest" /\ Candidates # <<>>) =>
        /\ IsPermutationOf(closest_lanes_ids, Candidates)
        /\ Ascending(closest_lanes_ids)

\* three candidates, two of them at equal distance, the third one nearer or
\* farther
C7_Witness ==
    /\ pc = "return_closest"
    /\ Len(closest_lanes_ids) = 3
    /\ \E i, j \in 1..3 :
          /\ i # j
          /\ NearestMidpoint(closest_lanes_ids[i]) = NearestMidpoint(closest_lanes_ids[j])
    /\ NearestMidpoint(closest_lanes_ids[1]) < NearestMidpoint(closest_lanes_ids[3])

====
